---- MODULE Spec2Model ----
(***************************************************************************)
(* Model of app/app.py: a Flask application with three routes ("/",        *)
(* "/health", "/api/data") whose handlers return JSON literals; the        *)
(* greeting handler reads APP_VERSION and ENV from os.environ.             *)
(*                                                                         *)
(* A path is the sequence of its parts after the leading slash, as         *)
(* path.split("/")[1:] gives them:  "/" is <<"">>, "/api/data" is          *)
(* <<"api","data">>, "/health/" is <<"health","">>, "/api//data" is        *)
(* <<"api","","data">> and "//health" is <<"","health">>.                  *)
(***************************************************************************)
EXTENDS Integers, Sequences, FiniteSets, TLC

VARIABLES environ, url_map, request, response, handler, envAt, prev,
          nserved, seen

vars == <<environ, url_map, request, response, handler, envAt, prev,
          nserved, seen>>

\* Number of requests one behaviour of the model serves.
MaxRequests == 3

----------------------------------------------------------------------------
\* The process environment: os.environ restricted to the two names read.

EnvNames == {"APP_VERSION", "ENV"}

EnvValues(name) ==
    IF name = "APP_VERSION" THEN {"", "2.0.0"} ELSE {"", "production"}

\* Every environment of the model: each name unset, empty or set.
Environs ==
    { e \in UNION { [names -> {"", "2.0.0", "production"}] : names \in SUBSET EnvNames } :
        \A n \in DOMAIN e : e[n] \in EnvValues(n) }

\* os.environ.get(key, default) with the "or" idiom: a falsy (empty) value
\* also gives the default.
os_environ_get_or(key, default) ==
    IF key \in DOMAIN environ /\ environ[key] # "" THEN environ[key] ELSE default

\* os.environ.get(key, default): the value when the key is present
\* (whatever it is), the default only when the key is absent.
os_environ_get(key, default) ==
    IF key \in DOMAIN environ THEN environ[key] ELSE default

----------------------------------------------------------------------------
\* Requests.

Root    == <<"">>
Health  == <<"health">>
ApiData == <<"api", "data">>

Paths ==
    { Root, Health, ApiData,
      <<"missing">>, <<"health", "">>, <<"api", "", "data">>, <<"", "health">> }

\* What a request carries besides method and path; no handler reads it.
Contents ==
    { [query |-> "",    headers |-> {},          body |-> ""],
      [query |-> "v=9", headers |-> {"X-Debug"}, body |-> "{}"] }

\* The requests of the model: a GET of every path with every content, and
\* a POST of a registered, a slash-doubled and an unknown path.
Requests ==
    [method : {"GET"}, path : Paths, content : Contents]
    \cup [method : {"POST"}, path : {Root, <<"api", "", "data">>, <<"missing">>},
          content : {[query |-> "v=9", headers |-> {"X-Debug"}, body |-> "{}"]}]

NoRequest == [method |-> "", path |-> <<>>, content |-> [query |-> "", headers |-> {}, body |-> ""]]

----------------------------------------------------------------------------
\* Responses.

NoJson == [html |-> TRUE]

\* jsonify(payload): a response of status 200 carrying the payload as JSON.
jsonify(payload) ==
    [status |-> 200, mimetype |-> "application/json", json |-> payload, location |-> <<>>]

\* The framework's default error responses (HTML pages, no JSON).
NotFound ==
    [status |-> 404, mimetype |-> "text/html", json |-> NoJson, location |-> <<>>]
MethodNotAllowed ==
    [status |-> 405, mimetype |-> "text/html", json |-> NoJson, location |-> <<>>]
InternalServerError ==
    [status |-> 500, mimetype |-> "text/html", json |-> NoJson, location |-> <<>>]
RequestRedirect(path) ==
    [status |-> 308, mimetype |-> "text/html", json |-> NoJson, location |-> path]

NoResponse ==
    [status |-> 0, mimetype |-> "", json |-> NoJson, location |-> <<>>]

----------------------------------------------------------------------------
\* The handlers.  Each is evaluated while a request is being served, so the
\* unprimed variables it could read are the state left by earlier requests.

\* hello with os.environ['APP_VERSION']: a KeyError, hence the framework's
\* 500 response, when the variable is not set.
hello_keyerror ==
    IF "APP_VERSION" \in DOMAIN environ
    THEN jsonify([message     |-> "Hello from CI/CD Pipeline!",
                  version     |-> environ["APP_VERSION"],
                  environment |-> os_environ_get("ENV", "development")])
    ELSE InternalServerError

\* hello with ENV read for both fields.
hello_env_twice ==
    jsonify([message     |-> "Hello from CI/CD Pipeline!",
             version     |-> os_environ_get("ENV", "1.0.0"),
             environment |-> os_environ_get("ENV", "development")])

\* hello with APP_VERSION read for both fields.
hello_version_twice ==
    jsonify([message     |-> "Hello from CI/CD Pipeline!",
             version     |-> os_environ_get("APP_VERSION", "1.0.0"),
             environment |-> os_environ_get("APP_VERSION", "development")])

\* hello memoised: the payload of the first call is returned ever after.
hello_cached ==
    IF request.method = "GET" /\ request.path = <<"">> /\ response.status = 200
    THEN response
    ELSE jsonify([message     |-> "Hello from CI/CD Pipeline!",
                  version     |-> os_environ_get("APP_VERSION", "1.0.0"),
                  environment |-> os_environ_get("ENV", "development")])

hello ==
    jsonify([message     |-> "Hello from CI/CD Pipeline!",
             version     |-> os_environ_get("APP_VERSION", "1.0.0"),
             environment |-> os_environ_get("ENV", "development")])

\* health reporting the process unhealthy once a request has failed.
health_after_error ==
    IF response.status >= 400
    THEN [status |-> 503, mimetype |-> "application/json",
          json |-> [status |-> "unhealthy"], location |-> <<>>]
    ELSE [jsonify([status |-> "healthy"]) EXCEPT !.status = 200]

health ==
    [jsonify([status |-> "healthy"]) EXCEPT !.status = 200]

\* get_data with list(range(1, 5)).
get_data_short ==
    jsonify([data |-> <<1, 2, 3, 4>>, count |-> 5])

\* get_data appending to a module-level list on every call.
get_data_growing ==
    jsonify([data  |-> <<1, 2, 3, 4, 5>> \o [i \in 1..nserved |-> 5 + i],
             count |-> 5 + nserved])

get_data ==
    jsonify([data |-> <<1, 2, 3, 4, 5>>, count |-> 5])

\* The view function registered for an endpoint.
view_functions(endpoint) ==
    CASE endpoint = "hello"    -> hello
      [] endpoint = "health"   -> health
      [] endpoint = "get_data" -> get_data

----------------------------------------------------------------------------
\* Routing.

\* The rules the three @app.route decorators add; a rule without a methods
\* argument answers GET (and HEAD, OPTIONS).
Rules ==
    { [rule |-> Root,    endpoint |-> "hello",    methods |-> {"GET", "HEAD", "OPTIONS"}],
      [rule |-> Health,  endpoint |-> "health",   methods |-> {"GET", "HEAD", "OPTIONS"}],
      [rule |-> ApiData, endpoint |-> "get_data", methods |-> {"GET", "HEAD", "OPTIONS"}] }

RECURSIVE lstrip(_)
\* "/" + path_info.lstrip("/"): extra leading slashes are dropped.
lstrip(path) ==
    IF Len(path) > 1 /\ Head(path) = "" THEN lstrip(Tail(path)) ELSE path

RECURSIVE merge_slashes(_)
\* Consecutive slashes merged into one: an empty part that is not the last
\* part disappears.
merge_slashes(path) ==
    IF Len(path) <= 1 THEN path
    ELSE IF Head(path) = "" THEN merge_slashes(Tail(path))
    ELSE <<Head(path)>> \o merge_slashes(Tail(path))

RulesFor(path) == { r \in url_map : r.rule = path }

\* A catch-all rule: what matches nothing goes to the greeting.
match_catch_all(method, path) ==
    LET p == lstrip(path)
        m == merge_slashes(p)
    IN  IF RulesFor(p) # {}
        THEN IF \E r \in RulesFor(p) : method \in r.methods
             THEN [kind |-> "endpoint",
                   endpoint |-> (CHOOSE r \in RulesFor(p) : method \in r.methods).endpoint,
                   location |-> <<>>]
             ELSE [kind |-> "405", endpoint |-> "", location |-> <<>>]
        ELSE IF m # p /\ RulesFor(m) # {}
        THEN IF \E r \in RulesFor(m) : method \in r.methods
             THEN [kind |-> "redirect", endpoint |-> "", location |-> m]
             ELSE [kind |-> "405", endpoint |-> "", location |-> <<>>]
        ELSE [kind |-> "endpoint", endpoint |-> "hello", location |-> <<>>]

\* The URL map's match: the endpoint of the rule that matches the path and
\* the method; 405 when only the method differs; a redirect to the merged
\* path when the path matches only after merging slashes; 404 otherwise.
match(method, path) ==
    LET p == lstrip(path)
        m == merge_slashes(p)
    IN  IF RulesFor(p) # {}
        THEN IF \E r \in RulesFor(p) : method \in r.methods
             THEN [kind |-> "endpoint",
                   endpoint |-> (CHOOSE r \in RulesFor(p) : method \in r.methods).endpoint,
                   location |-> <<>>]
             ELSE [kind |-> "405", endpoint |-> "", location |-> <<>>]
        ELSE IF m # p /\ RulesFor(m) # {}
        THEN IF \E r \in RulesFor(m) : method \in r.methods
             THEN [kind |-> "redirect", endpoint |-> "", location |-> m]
             ELSE [kind |-> "405", endpoint |-> "", location |-> <<>>]
        ELSE [kind |-> "404", endpoint |-> "", location |-> <<>>]

\* The response to a request and the endpoint whose view function ran.
full_dispatch_request(req) ==
    LET m == match(req.method, req.path)
    IN  CASE m.kind = "endpoint" -> [response |-> view_functions(m.endpoint), handler |-> m.endpoint]
          [] m.kind = "redirect" -> [response |-> RequestRedirect(m.location), handler |-> ""]
          [] m.kind = "405"      -> [response |-> MethodNotAllowed, handler |-> ""]
          [] m.kind = "404"      -> [response |-> NotFound, handler |-> ""]

----------------------------------------------------------------------------
\* The state machine.

\* A view function that uses os.environ.setdefault for its defaults writes
\* them into the environment.
environ_after_setdefault(endpoint) ==
    IF endpoint = "hello"
    THEN [n \in EnvNames |->
            IF n \in DOMAIN environ THEN environ[n]
            ELSE IF n = "APP_VERSION" THEN "1.0.0" ELSE "development"]
    ELSE environ

\* os.environ after a request: no view function assigns to it.
environ_after(endpoint) == environ

Init ==
    /\ environ \in Environs
    /\ url_map = Rules
    /\ request = NoRequest
    /\ response = NoResponse
    /\ handler = ""
    /\ envAt = environ
    /\ prev = [method |-> "", path |-> <<>>, response |-> NoResponse]
    /\ nserved = 0
    /\ seen = [p \in {Root, Health, ApiData} |-> {}]

\* The server answers one request.
Serve(req) ==
    /\ nserved < MaxRequests
    /\ LET d == full_dispatch_request(req)
       IN  /\ response' = d.response
           /\ handler' = d.handler
           /\ environ' = environ_after(d.handler)
           /\ seen' = IF req.method = "GET" /\ req.path \in DOMAIN seen
                      THEN [seen EXCEPT ![req.path] =
                              @ \cup {[content |-> req.content, response |-> d.response]}]
                      ELSE seen
    /\ request' = req
    /\ envAt' = environ
    /\ prev' = [method |-> request.method, path |-> request.path, response |-> response]
    /\ nserved' = nserved + 1
    /\ UNCHANGED url_map

Hello   == \E req \in Requests : match(req.method, req.path).endpoint = "hello" /\ Serve(req)
HealthCheck == \E req \in Requests : match(req.method, req.path).endpoint = "health" /\ Serve(req)
GetData == \E req \in Requests : match(req.method, req.path).endpoint = "get_data" /\ Serve(req)
Unrouted == \E req \in Requests : match(req.method, req.path).kind # "endpoint" /\ Serve(req)

\* Something in the process sets a variable: os.environ[name] = value.
putenv ==
    \E name \in EnvNames : \E value \in EnvValues(name) :
        /\ os_environ_get(name, "<unset>") # value
        /\ environ' = [n \in DOMAIN environ \cup {name} |->
                          IF n = name THEN value ELSE environ[n]]
        /\ seen' = [p \in DOMAIN seen |-> {}]
        /\ UNCHANGED <<url_map, request, response, handler, envAt, prev, nserved>>

\* Something in the process removes a variable: del os.environ[name].
unsetenv ==
    \E name \in DOMAIN environ :
        /\ environ' = [n \in DOMAIN environ \ {name} |-> environ[n]]
        /\ seen' = [p \in DOMAIN seen |-> {}]
        /\ UNCHANGED <<url_map, request, response, handler, envAt, prev, nserved>>

Next == Hello \/ HealthCheck \/ GetData \/ Unrouted \/ putenv \/ unsetenv

Spec == Init /\ [][Next]_vars

----------------------------------------------------------------------------
\* Properties.

\* The last request served was a GET of the path.
Got(path) == nserved > 0 /\ request.method = "GET" /\ request.path = path

\* The request before the last one was a GET of the path.
GotBefore(path) == nserved > 1 /\ prev.method = "GET" /\ prev.path = path

Registered == {Root, Health, ApiData}

\* C1: whatever APP_VERSION and ENV are and whatever was served before, GET /
\* is answered 200 with a JSON object whose key message is present and is
\* "Hello from CI/CD Pipeline!".
C1_HelloMessage ==
    Got(Root) =>
        /\ response.status = 200
        /\ "message" \in DOMAIN response.json
        /\ response.json.message = "Hello from CI/CD Pipeline!"

C1_Witness ==
    /\ Got(Root)
    /\ nserved >= 2
    /\ DOMAIN envAt = {}
    /\ response.status = 200
    /\ response.json.message = "Hello from CI/CD Pipeline!"

\* C2: GET /health is answered 200 with exactly {"status": "healthy"} in
\* every environment and after any earlier requests, failed ones included.
C2_HealthUnconditional ==
    Got(Health) =>
        /\ response.status = 200
        /\ response.json = [status |-> "healthy"]

C2_Witness ==
    /\ Got(Health)
    /\ prev.response.status \in {404, 405}
    /\ DOMAIN envAt = EnvNames
    /\ response.status = 200
    /\ response.json = [status |-> "healthy"]

\* C3: GET /api/data is answered 200 with data = [1,2,3,4,5] (five elements,
\* in that order) and count = 5, so count is the length of data.
C3_DataAndCount ==
    Got(ApiData) =>
        /\ response.status = 200
        /\ DOMAIN response.json = {"data", "count"}
        /\ Len(response.json.data) = 5
        /\ \A i \in 1..5 : response.json.data[i] = i
        /\ response.json.count = 5
        /\ response.json.count = Len(response.json.data)

C3_Witness ==
    /\ Got(ApiData)
    /\ nserved >= 2
    /\ response.status = 200
    /\ response.json.data = <<1, 2, 3, 4, 5>>
    /\ response.json.count = 5

\* C4: the version of the GET / response is APP_VERSION's value when it is
\* set and "1.0.0" when it is not, whatever ENV is.
C4_VersionFromAppVersion ==
    Got(Root) =>
        /\ "version" \in DOMAIN response.json
        /\ "APP_VERSION" \in DOMAIN envAt => response.json.version = envAt["APP_VERSION"]
        /\ "APP_VERSION" \notin DOMAIN envAt => response.json.version = "1.0.0"

C4_Witness ==
    /\ Got(Root)
    /\ "APP_VERSION" \in DOMAIN envAt
    /\ envAt["APP_VERSION"] = "2.0.0"
    /\ "ENV" \notin DOMAIN envAt
    /\ response.json.version = "2.0.0"

\* C5: the environment of the GET / response is ENV's value when it is set
\* and "development" when it is not, whatever APP_VERSION is, and the status
\* is 200 in each set/unset combination of the two variables.
C5_EnvironmentFromEnv ==
    Got(Root) =>
        /\ response.status = 200
        /\ "environment" \in DOMAIN response.json
        /\ "ENV" \in DOMAIN envAt => response.json.environment = envAt["ENV"]
        /\ "ENV" \notin DOMAIN envAt => response.json.environment = "development"

C5_Witness ==
    /\ Got(Root)
    /\ "ENV" \in DOMAIN envAt
    /\ envAt["ENV"] = "production"
    /\ "APP_VERSION" \notin DOMAIN envAt
    /\ response.status = 200
    /\ response.json.environment = "production"

\* C6: while the environment stays the same, all GET requests to one of the
\* three routes receive the same status and body, whatever they carry and
\* whatever was served in between.
C6_SameAnswerPerRoute ==
    \A p \in DOMAIN seen : \A a, b \in seen[p] : a.response = b.response

C6_Witness ==
    /\ nserved >= 3
    /\ \E p \in DOMAIN seen :
          \E a, b \in seen[p] : a.content.query # b.content.query /\ a.response = b.response

\* C7 as stated: a request whose path is not /, /health or /api/data is
\* answered 404 and runs no handler.
C7_AnyOtherPathIs404 ==
    (nserved > 0 /\ request.path \notin Registered) =>
        /\ response.status = 404
        /\ handler = ""

\* C7 amended: a request whose path matches no rule, neither as sent nor
\* with extra leading slashes dropped and repeated slashes merged, is
\* answered with the default 404, runs no handler and carries no JSON body;
\* a GET of a registered route served right after it is answered as always.
C7_UnmatchedPathIs404 ==
    /\ (nserved > 0 /\ merge_slashes(lstrip(request.path)) \notin Registered) =>
          /\ response.status = 404
          /\ response.mimetype = "text/html"
          /\ response.json = NoJson
          /\ handler = ""
    /\ (nserved > 1 /\ prev.response.status = 404 /\ request.method = "GET") =>
          /\ request.path = Health =>
                /\ response.status = 200
                /\ response.json = [status |-> "healthy"]
          /\ request.path = ApiData =>
                /\ response.status = 200
                /\ response.json = [data |-> <<1, 2, 3, 4, 5>>, count |-> 5]
          /\ request.path = Root =>
                /\ response.status = 200
                /\ response.json.message = "Hello from CI/CD Pipeline!"
                /\ response.json.version =
                      (IF "APP_VERSION" \in DOMAIN envAt THEN envAt["APP_VERSION"] ELSE "1.0.0")
                /\ response.json.environment =
                      (IF "ENV" \in DOMAIN envAt THEN envAt["ENV"] ELSE "development")

C7_Witness ==
    /\ nserved > 1
    /\ prev.path = <<"missing">>
    /\ prev.response.status = 404
    /\ Got(ApiData)
    /\ response.status = 200

\* C8: serving a request, to a registered route or not, leaves APP_VERSION
\* and ENV (values and set/unset status) and the registered routes unchanged.
C8_NoSideEffects ==
    [][nserved' # nserved => environ' = environ /\ url_map' = url_map]_vars

C8_Witness ==
    /\ nserved >= 2
    /\ handler = "hello"
    /\ prev.response.status = 404
    /\ DOMAIN environ = {}
    /\ environ = envAt
    /\ url_map = Rules

\* C9: of two consecutive GET / requests with APP_VERSION or ENV changed in
\* between, the second reports the values current when it is served.
C9_BuiltAtRequestTime ==
    [][(/\ nserved' = nserved + 1
        /\ Got(Root)
        /\ request'.method = "GET" /\ request'.path = Root
        /\ environ # envAt)
       => /\ response'.status = 200
          /\ response'.json.version =
                (IF "APP_VERSION" \in DOMAIN environ THEN environ["APP_VERSION"] ELSE "1.0.0")
          /\ response'.json.environment =
                (IF "ENV" \in DOMAIN environ THEN environ["ENV"] ELSE "development")]_vars

C9_Witness ==
    /\ Got(Root)
    /\ GotBefore(Root)
    /\ prev.response.json.version = "1.0.0"
    /\ prev.response.json.environment = "production"
    /\ response.json.version = "2.0.0"
    /\ response.json.environment = "development"
    /\ envAt = [n \in {"APP_VERSION"} |-> "2.0.0"]

\* C10: a variable set to the empty string is reported as the empty string,
\* not as the default, and the status is still 200.
C10_EmptyIsNotAbsent ==
    Got(Root) =>
        /\ ("APP_VERSION" \in DOMAIN envAt /\ envAt["APP_VERSION"] = "") =>
              (response.status = 200 /\ response.json.version = "")
        /\ ("ENV" \in DOMAIN envAt /\ envAt["ENV"] = "") =>
              (response.status = 200 /\ response.json.environment = "")

C10_Witness ==
    /\ Got(Root)
    /\ envAt = [n \in EnvNames |-> ""]
    /\ response.status = 200
    /\ response.json.version = ""
    /\ response.json.environment = ""

====
